---- MODULE Spec2Model ----
(***************************************************************************)
(* AnyCard: the greeting-card page (the Home component) and its printable  *)
(* bifold PDF.  The model follows the latest revision of the page          *)
(* (src/unnamed/part_002): the form state, the generation request and      *)
(* handleDownloadPDF, which lays out the two-page card with jsPDF, the     *)
(* share menu with its handlers and timers, and the generate route         *)
(* (src/src/app/api/generate/route.ts) with its two external services.     *)
(*                                                                         *)
(* Lengths are exact: every length of the document is an integer number of *)
(* 1/U inch, with U chosen so that the line heights size * 1.4 / 72 and    *)
(* the halved differences of the vertical centering are whole numbers.     *)
(* Text is a sequence of one-character strings.                            *)
(***************************************************************************)
EXTENDS Integers, Sequences, FiniteSets, TLC

VARIABLES
    description,      \* useState(""): the recipient description
    insideMessage,    \* useState(""): the inside message
    messageFontSize,  \* useState("medium"): id of the chosen font tier
    isLoading,        \* useState(false)
    generatedImage,   \* useState(null): << >> is null, <<img>> an image
    error,            \* useState(null): << >> is null, <<msg>> a message
    pending,          \* number of /api/generate requests in flight
    savedPdf,         \* << >>, or <<doc>>: the document of the last pdf.save
    pdfLog,           \* outcome of the last handleDownloadPDF that got past its guard
    route,            \* the request being served by POST /api/generate
    category,         \* useState("birthday"): id of the chosen occasion
    artStyle,         \* useState("editorial-painterly"): id of the chosen art style
    webShareAvailable,   \* useState(false), set from canUseWebShare() on mount
    showShareMenu,       \* useState(false)
    shareStatus,         \* useState(null): << >> is null, <<msg>> a message
    timers,              \* number of setTimeout(() => setShareStatus(null)) callbacks pending
    nativeSharePending,  \* number of handleNativeShare calls awaiting
    copyPending,         \* number of handleCopyImage calls awaiting
    shareLog             \* outcome of the last share handler that ran to its end

\* The state of the share menu and of the share handlers.
shareVars == <<webShareAvailable, showShareMenu, shareStatus, timers,
               nativeSharePending, copyPending, shareLog>>

vars == <<description, insideMessage, messageFontSize, isLoading,
          generatedImage, error, pending, savedPdf, pdfLog, route,
          category, artStyle, shareVars>>

---------------------------------------------------------------------------
(* Bounds of the model *)

\* Largest number of pending timers that clear the share status.
MaxTimers == 2
\* Largest number of calls of one share handler awaiting at a time.
MaxShares == 1

\* Largest number of paragraphs of a generated message.
MaxParas == 36
\* Number of words of the message whose words wrap one to a line.
WrapWords == 30
---------------------------------------------------------------------------
(* Arithmetic helpers *)

Max(a, b) == IF a >= b THEN a ELSE b
Min(a, b) == IF a <= b THEN a ELSE b

\* Points per inch: jsPDF's scale factor for unit "in".
PointsPerInch == 72
\* Model length units per inch.
U == PointsPerInch * 5

---------------------------------------------------------------------------
(* Page geometry of handleDownloadPDF *)

pageWidth == 11 * U
pageHeight == (17 * U) \div 2
halfWidth == pageWidth \div 2

Line(x1, y1, x2, y2) == [x1 |-> x1, y1 |-> y1, x2 |-> x2, y2 |-> y2]

---------------------------------------------------------------------------
(* Text: String.prototype.trim and the wrapping of the message.  The      *)
(* handler wraps with pdf.splitTextToSize of the jsPDF library, which is  *)
(* not part of the source; the wrapping here is the one the layout        *)
(* specification describes (4.3b): the text is cut at line breaks and at  *)
(* spaces, every line as full as the width allows.  How a word wider than *)
(* the line is laid out is left open: no message of the model has one.    *)

\* The characters trim() removes, among those of the model's alphabet.
Whitespace == {" ", "\n"}

\* !text.trim(): the text is empty or consists of whitespace only.
IsBlank(text) == \A i \in 1..Len(text) : text[i] \in Whitespace

\* String.prototype.split(sep) for a one-character separator: the pieces
\* between the separators, empty pieces included.
Split(text, sep) ==
    LET seps == { i \in 1..Len(text) : text[i] = sep }
        \* position of the k-th separator; 0 before the text, Len + 1 after it
        at(k) == IF k = 0 THEN 0
                 ELSE IF k > Cardinality(seps) THEN Len(text) + 1
                 ELSE CHOOSE i \in seps : Cardinality({ j \in seps : j < i }) = k - 1
    IN [k \in 1..(Cardinality(seps) + 1) |-> SubSeq(text, at(k - 1) + 1, at(k) - 1)]

\* Array.prototype.join(sep) of a sequence of texts.
Join(parts, sep) ==
    LET RECURSIVE go(_, _)
        go(i, acc) ==
            IF i > Len(parts) THEN acc
            ELSE go(i + 1, IF i = 1 THEN parts[i] ELSE acc \o <<sep>> \o parts[i])
    IN go(1, << >>)

\* Advance width of a character in the document's default font
\* (Helvetica), in 1/1000 of the font size.
CharWidth(c) ==
    CASE c = " " -> 278
      [] c = "i" -> 222
      [] c = "c" -> 500
      [] OTHER   -> 556

\* Width of a text in 1/1000 of the font size.
TextWidth(text) ==
    LET RECURSIVE go(_, _)
        go(i, acc) == IF i > Len(text) THEN acc ELSE go(i + 1, acc + CharWidth(text[i]))
    IN go(1, 0)

\* A width w (1/1000 of the font size) against a length maxlen (1/U inch)
\* at font size `size`: both sides scaled to 1/(1000 * PointsPerInch * U) inch.
Scaled(w, size) == w * size * U
Limit(maxlen) == maxlen * PointsPerInch * 1000

\* Greedy filling of lines with the words of one paragraph (split at single
\* spaces): a word that no longer fits the line under construction starts
\* the next line.  `lines` holds the lines so far, each a sequence of
\* words, the last one being the line under construction.
splitParagraphIntoLines(text, maxlen, size) ==
    LET words == Split(text, " ")
        spaceCharWidth == CharWidth(" ")
        RECURSIVE go(_, _, _, _)
        go(i, lines, line_length, separator_length) ==
            IF i > Len(words) THEN lines
            ELSE
              LET word == words[i]
                  current_word_length == TextWidth(word)
                  n == Len(lines)
              IN IF Scaled(line_length + separator_length + current_word_length, size)
                        > Limit(maxlen)
                 THEN go(i + 1, Append(lines, <<word>>),
                         current_word_length, spaceCharWidth)
                 ELSE go(i + 1, [lines EXCEPT ![n] = Append(@, word)],
                         line_length + separator_length + current_word_length,
                         spaceCharWidth)
        result == go(1, << << >> >>, 0, 0)
    IN [j \in 1..Len(result) |-> Join(result[j], " ")]

\* The lines of pdf.splitTextToSize(text, maxlen) at the current font size:
\* the text is split at line breaks and every paragraph is wrapped on its
\* own.
splitTextToSize(text, maxlen, size) ==
    LET paragraphs == Split(text, "\n")
        RECURSIVE go(_, _)
        go(i, output) ==
            IF i > Len(paragraphs) THEN output
            ELSE go(i + 1, output \o splitParagraphIntoLines(paragraphs[i], maxlen, size))
    IN go(1, << >>)

---------------------------------------------------------------------------
(* Font tiers *)

FONT_SIZES ==
    << [id |-> "small",  size |-> 10],
       [id |-> "medium", size |-> 14],
       [id |-> "large",  size |-> 18] >>

\* FONT_SIZES.find(f => f.id === messageFontSize) || FONT_SIZES[1]
fontSizeConfig(fontId) ==
    IF \E i \in 1..Len(FONT_SIZES) : FONT_SIZES[i].id = fontId
    THEN FONT_SIZES[CHOOSE i \in 1..Len(FONT_SIZES) :
                        /\ FONT_SIZES[i].id = fontId
                        /\ \A j \in 1..(i - 1) : FONT_SIZES[j].id # fontId]
    ELSE FONT_SIZES[2]

\* Variant: the point size converted to inches without the 1.4 leading.
lineHeightNoLeading(size) == (size * U) \div PointsPerInch
\* (fontSizeConfig.size * 1.4) / 72 inch, in 1/U inch.
lineHeightInches(size) == (size * 7 * U) \div (5 * PointsPerInch)

---------------------------------------------------------------------------
(* Page 1: the outside of the card *)

\* pdf.line(halfWidth, 0, halfWidth, pageHeight): the dashed fold line.
foldLine1 == Line(halfWidth, 0, halfWidth, pageHeight)

\* pdf.text("made with AnyCard", 0.3, pageHeight - 0.3) on the back panel.
brandingAnchor == [x |-> (3 * U) \div 10, y |-> pageHeight - (3 * U) \div 10]

\* Variant: the page width passed as the image width.
imageRectPageWide(image) ==
    [x |-> halfWidth, y |-> 0, width |-> pageWidth, height |-> pageHeight]
\* pdf.addImage(generatedImage, "PNG", halfWidth, 0, halfWidth, pageHeight):
\* the rectangle the artwork is drawn into.  The image's own dimensions
\* are not consulted.
imageRect(image) == [x |-> halfWidth, y |-> 0, width |-> halfWidth, height |-> pageHeight]

---------------------------------------------------------------------------
(* Page 2: the inside of the card *)

\* Variant: the second fold line drawn at the page's right edge.
foldLine2AtEdge == Line(pageWidth, 0, pageWidth, pageHeight)
\* The fold line drawn again after pdf.addPage.
foldLine2 == Line(halfWidth, 0, halfWidth, pageHeight)

\* Variant: the lower flourish anchored to the page's bottom-right corner.
flourishesAtPageCorner ==
    LET a == (3 * U) \div 10
        b == (6 * U) \div 10
    IN << Line(a, b, a, a),
          Line(a, a, b, a),
          Line(pageWidth - b, pageHeight - a, pageWidth - a, pageHeight - a),
          Line(pageWidth - a, pageHeight - a, pageWidth - a, pageHeight - b) >>
\* The four strokes of the corner flourishes on the inside-left panel.
flourishes ==
    LET a == (3 * U) \div 10
        b == (6 * U) \div 10
    IN << Line(a, b, a, a),
          Line(a, a, b, a),
          Line(halfWidth - b, pageHeight - a, halfWidth - a, pageHeight - a),
          Line(halfWidth - a, pageHeight - a, halfWidth - a, pageHeight - b) >>

messageMarginX == (3 * U) \div 4
messageStartX == halfWidth + messageMarginX
messageMaxWidth == halfWidth - (messageMarginX * 2)

\* const lines = pdf.splitTextToSize(insideMessage, messageMaxWidth)
wrappedLines(message, fontId) ==
    splitTextToSize(message, messageMaxWidth, fontSizeConfig(fontId).size)

totalTextHeight(lineCount, fontId) ==
    lineCount * lineHeightInches(fontSizeConfig(fontId).size)

\* Variant: only one margin subtracted.
availableHeightOneMargin == pageHeight - U
\* pageHeight - 2: one inch of margin at the top and at the bottom.
availableHeight == pageHeight - 2 * U

\* Variant: the centering without the clamp to the top margin.
startYUnclamped(lineCount, fontId) ==
    (pageHeight - totalTextHeight(lineCount, fontId)) \div 2
\* Math.max(1, (pageHeight - totalTextHeight) / 2)
startY(lineCount, fontId) ==
    Max(U, (pageHeight - totalTextHeight(lineCount, fontId)) \div 2)

\* Math.floor(availableHeight / lineHeightInches)
maxLines(fontId) == availableHeight \div lineHeightInches(fontSizeConfig(fontId).size)

\* Variant: every wrapped line kept.
linesToRenderAll(lines, fontId) == lines
\* Variant: one line too many kept.
linesToRenderOneMore(lines, fontId) ==
    SubSeq(lines, 1, Min(Len(lines), maxLines(fontId) + 1))
\* lines.slice(0, maxLines)
linesToRender(lines, fontId) == SubSeq(lines, 1, Min(Len(lines), maxLines(fontId)))

\* The forEach over linesToRender: one pdf.text per line.
textBlock(message, fontId) ==
    LET lines == wrappedLines(message, fontId)
        shown == linesToRender(lines, fontId)
        y0 == startY(Len(lines), fontId)
        lh == lineHeightInches(fontSizeConfig(fontId).size)
    IN [index \in 1..Len(shown) |->
            [str |-> shown[index], x |-> messageStartX, y |-> y0 + (index - 1) * lh]]

\* Variant: the mark placed one line below the last rendered line.
ellipsisAfterLastLine(message, fontId) ==
    LET lines == wrappedLines(message, fontId)
        lh == lineHeightInches(fontSizeConfig(fontId).size)
    IN IF Len(lines) > maxLines(fontId)
       THEN << [str |-> <<".", ".", ".">>, x |-> messageStartX,
                y |-> startY(Len(lines), fontId) + maxLines(fontId) * lh] >>
       ELSE << >>
\* if (lines.length > maxLines) pdf.text("...", messageStartX, pageHeight - 0.5)
ellipsis(message, fontId) ==
    IF Len(wrappedLines(message, fontId)) > maxLines(fontId)
    THEN << [str |-> <<".", ".", ".">>, x |-> messageStartX, y |-> pageHeight - U \div 2] >>
    ELSE << >>

\* Number of ruled lines of the default inside-right panel.
writingLineCount == 10

\* for (let i = 0; i < 10; i++) pdf.line(lineStartX, startY + i * lineSpacing, lineEndX, ...)
writingLines ==
    LET lineStartX == messageStartX
        lineEndX == pageWidth - messageMarginX
        start == 2 * U
        lineSpacing == U \div 2
    IN [k \in 1..writingLineCount |->
            Line(lineStartX, start + (k - 1) * lineSpacing,
                 lineEndX, start + (k - 1) * lineSpacing)]

\* Variant: the message tested without trim().
hasMessageUntrimmed(message) == message # << >>
\* if (insideMessage.trim()) { message } else { writing lines }
hasMessage(message) == ~IsBlank(message)

\* Everything handleDownloadPDF draws before pdf.save("anycard.pdf").
RenderPDF(image, message, fontId) ==
    [ page1 |-> [ fold |-> foldLine1,
                  branding |-> brandingAnchor,
                  image |-> imageRect(image) ],
      page2 |-> [ fold |-> foldLine2,
                  flourishes |-> flourishes,
                  text |-> IF hasMessage(message) THEN textBlock(message, fontId) ELSE << >>,
                  ellipsis |-> IF hasMessage(message) THEN ellipsis(message, fontId) ELSE << >>,
                  writingLines |-> IF hasMessage(message) THEN << >> ELSE writingLines ] ]

---------------------------------------------------------------------------
(* Inputs *)

\* n copies of the character c.
Rep(c, n) == [i \in 1..n |-> c]

\* A message of n one-word paragraphs separated by line breaks; neighbouring
\* paragraphs differ.
Paras(n) ==
    LET letters == <<"a", "b", "c">>
        para(k) == Rep(letters[(k % 3) + 1], (k % 4) + 1)
    IN Join([k \in 1..n |-> para(k)], "\n")

\* A message of n words of k letters each, separated by single spaces.
Words(n, k) ==
    LET letters == <<"a", "b">>
    IN Join([j \in 1..n |-> Rep(letters[(j % 2) + 1], k)], " ")

\* Messages of the layout specifications: every paragraph count up to
\* MaxParas, blank texts and texts that wrap by width.  Every word fits a
\* line at every font tier.
LayoutMessages ==
    { Paras(n) : n \in 0..MaxParas }
      \cup { <<" ">>, <<" ", "\n", " ">>, <<"\n", "a">> }
      \cup { Words(12, 10), Words(WrapWords, 27), Words(40, 3) }

\* Messages typed in the page specification.
PageMessages == { << >>, <<" ">>, <<"h", "i">>, Paras(24) }

Descriptions == { << >>, <<" ">>, <<"d", "o", "g">> }

FontIds == { FONT_SIZES[i].id : i \in 1..Len(FONT_SIZES) }

Image(w, h, ok) == [intrinsicWidth |-> w, intrinsicHeight |-> h, readable |-> ok]

\* Images the image model may return: portrait, landscape, square, one of
\* exactly the panel's proportions (5.5 : 8.5), and one jsPDF cannot read.
Images ==
    { Image(1000, 1500, TRUE), Image(1500, 1000, TRUE), Image(1024, 1024, TRUE),
      Image(1100, 1700, TRUE), Image(1000, 1500, FALSE) }

PageImages == { Image(1000, 1500, TRUE), Image(1000, 1500, FALSE) }

\* Occasions and art styles clicked in the page specifications.
PageCategories == { "birthday", "wedding" }
PageArtStyles == { "editorial-painterly", "vintage" }

\* The message of the SyntaxError with which response.json() rejects for a
\* body that is no JSON.  The JavaScript runtime words it, not the page:
\* the bare parser message or the one prefixed by the failing call, for an
\* empty body and for a body that starts with markup.
JsonErrorMessages ==
    { "Unexpected end of JSON input",
      "Failed to execute 'json' on 'Response': Unexpected end of JSON input",
      "Unexpected token '<', \"<html>\" is not valid JSON",
      "Failed to execute 'json' on 'Response': Unexpected token '<', \"<html>\" is not valid JSON" }

\* The ways the request of handleSubmit fails: the server answers with an
\* error status and a body { error } or a body without error; fetch
\* rejects; response.json() rejects with one of the runtime's messages; a
\* rejection whose reason is no Error.
FetchFailures ==
    { [kind |-> "status", error |-> <<"Failed to generate image with Reve">>],
      [kind |-> "status", error |-> << >>],
      [kind |-> "reject", error |-> << >>],
      [kind |-> "other", error |-> << >>] }
    \cup { [kind |-> "unparsable", error |-> <<message>>] : message \in JsonErrorMessages }

\* The message the catch block of handleSubmit passes to setError:
\* data.error || "Failed to generate card" for an error status, err.message
\* for a thrown Error (the runtime's text for a body that is no JSON),
\* "Something went wrong" otherwise.
failureMessage(failure) ==
    IF failure.kind = "status"
    THEN IF failure.error # << >> THEN failure.error[1] ELSE "Failed to generate card"
    ELSE IF failure.kind = "reject" THEN "Failed to fetch"
    ELSE IF failure.kind = "unparsable" THEN failure.error[1]
    ELSE "Something went wrong"

ErrorMessages == { failureMessage(failure) : failure \in FetchFailures }

---------------------------------------------------------------------------
(* The generate route: POST /api/generate (route.ts) *)

\* A property absent from the request body.
Undefined == "<undefined>"

CategoryIds == { "birthday", "anniversary", "thank-you", "get-well",
                 "wedding", "graduation", "holiday" }
ArtStyleIds == { "editorial-painterly", "watercolor", "ink-sketch",
                 "minimalist", "vintage" }

\* Keys every object literal inherits from Object.prototype (two of them).
InheritedKeys == { "constructor", "toString" }

\* CATEGORY_THEMES[category] || CATEGORY_THEMES.birthday: the key whose
\* theme text goes into the prompt request.
\* A key that the table inherits from Object.prototype looks up a function,
\* which is truthy: there is no fall-back for it.
\* A value that is no string (null, a number) is converted to a property
\* name that the table does not have.
categoryTheme(categoryValue) ==
    IF categoryValue.type = "string" /\ categoryValue.value \in CategoryIds \cup InheritedKeys
    THEN categoryValue.value ELSE "birthday"

\* ART_STYLE_PROMPTS[artStyle] || ART_STYLE_PROMPTS["editorial-painterly"]
stylePrompt(artStyleValue) ==
    IF artStyleValue.type = "string" /\ artStyleValue.value \in ArtStyleIds \cup InheritedKeys
    THEN artStyleValue.value ELSE "editorial-painterly"

\* Destructuring defaults: category = "birthday", artStyle =
\* "editorial-painterly" for a property that is undefined.
\* null, a number or any other value is kept as it is.
withDefault(value, default) ==
    IF value.type = "undefined" THEN [type |-> "string", value |-> default] ELSE value

\* Request bodies that are read into description, category and artStyle:
\* description missing, empty, of another type, or a text; category and
\* artStyle missing, known, unknown, or no string at all (null, a number).
RouteDescriptions ==
    { [type |-> "undefined", value |-> ""], [type |-> "string", value |-> ""],
      [type |-> "number", value |-> "7"], [type |-> "string", value |-> "dog"] }
RouteCategories ==
    { [type |-> "undefined", value |-> ""], [type |-> "string", value |-> "wedding"],
      [type |-> "string", value |-> "easter"], [type |-> "string", value |-> "constructor"],
      [type |-> "null", value |-> ""], [type |-> "number", value |-> "5"] }
RouteArtStyles ==
    { [type |-> "undefined", value |-> ""], [type |-> "string", value |-> "vintage"],
      [type |-> "string", value |-> "cubist"], [type |-> "string", value |-> "toString"],
      [type |-> "null", value |-> ""], [type |-> "number", value |-> "5"] }
ReadBodies ==
    [ read : {TRUE}, thrown : { << >> }, description : RouteDescriptions,
      category : RouteCategories, artStyle : RouteArtStyles ]

\* An Error with its message.
Thrown(message) == [isError |-> TRUE, message |-> message]

\* What `await request.json()` and the destructuring of its value throw: the
\* SyntaxError of a body that is no JSON (empty, cut short, markup), worded
\* by the runtime, and the TypeError of destructuring the body `null`.
RequestErrors ==
    { Thrown("Unexpected end of JSON input"),
      Thrown("Expected property name or '}' in JSON at position 1 (line 1 column 2)"),
      Thrown("Unexpected token '<', \"<html>\" is not valid JSON"),
      Thrown("Cannot destructure property 'description' of '(intermediate value)' as it is null.") }

\* Request bodies that are not read: nothing is destructured from them.
UnreadBodies ==
    { [ read |-> FALSE, thrown |-> <<e>>,
        description |-> [type |-> "undefined", value |-> ""],
        category |-> [type |-> "undefined", value |-> ""],
        artStyle |-> [type |-> "undefined", value |-> ""] ] : e \in RequestErrors }

RouteBodies == ReadBodies \cup UnreadBodies

\* process.env: whether each API key is configured.
RouteEnvs == [ CLAUDE_API_KEY : BOOLEAN, REVE_API_KEY : BOOLEAN ]

\* Texts the text model may answer with.
Prompts == { "", "prompt-1", "prompt-2" }

\* What the call of an external service throws by itself: the rejection
\* of fetch (no connection) and the SyntaxError of response.json() for an
\* answer that is no JSON, both worded by the runtime.
FetchErrors ==
    { Thrown("fetch failed"),
      Thrown("Unexpected token '<', \"<html>\" is not valid JSON") }

\* What a fetch of an external service may come to: a response with an OK
\* status, a response with another status, or an error thrown (network
\* error, unreadable body).
ClaudeReplies ==
    { [kind |-> "ok", text |-> p, thrown |-> << >>] : p \in Prompts }
      \cup { [kind |-> "status", text |-> "", thrown |-> << >>] }
      \cup { [kind |-> "throw", text |-> "", thrown |-> <<e>>] : e \in FetchErrors }
ReveReplies ==
    { [kind |-> "ok", image |-> i, url |-> u, thrown |-> << >>] :
          i \in { Undefined, "", "base64" }, u \in { Undefined, "", "https://img" } }
      \cup { [kind |-> "status", image |-> Undefined, url |-> Undefined, thrown |-> << >>] }
      \cup { [kind |-> "throw", image |-> Undefined, url |-> Undefined, thrown |-> <<e>>] :
                e \in FetchErrors }

\* No request received yet.
RouteIdle ==
    [ pc |-> "idle", body |-> << >>, env |-> << >>,
      claudeCalls |-> << >>, claudeReply |-> << >>,
      reveCalls |-> << >>, reveReply |-> << >>, response |-> << >> ]

\* NextResponse.json({ error }, { status })
errorResponse(status, message) ==
    [ status |-> status, error |-> <<message>>, imageUrl |-> << >>, prompt |-> << >> ]

\* NextResponse.json({ imageUrl, prompt: imagePrompt })
successResponse(imageUrl, imagePrompt) ==
    [ status |-> 200, error |-> << >>, imageUrl |-> <<imageUrl>>, prompt |-> <<imagePrompt>> ]

\* The catch block of POST: the message of the thrown Error, or a fixed
\* text for a thrown value that is no Error.
caughtMessage(err) ==
    IF err.isError THEN err.message ELSE "Failed to generate card"

\* The request generateImagePrompt sends to the text model.
promptRequest(body) ==
    [ description |-> body.description.value,
      category |-> withDefault(body.category, "birthday").value,
      artStyle |-> withDefault(body.artStyle, "editorial-painterly").value,
      theme |-> categoryTheme(withDefault(body.category, "birthday")),
      style |-> stylePrompt(withDefault(body.artStyle, "editorial-painterly")) ]

\* The TypeError of value.toUpperCase() for a value that is no string.
toUpperCaseError(name, value) ==
    IF value.type = "null" THEN "Cannot read properties of null (reading 'toUpperCase')"
    ELSE IF name = "category" THEN "category.toUpperCase is not a function"
    ELSE "artStyle.toUpperCase is not a function"

\* generateImagePrompt building its prompt, before its fetch: the template
\* evaluates category.toUpperCase(), then artStyle.toUpperCase(), and the
\* first of the two that is no string throws.  << >>: nothing is thrown.
promptError(body) ==
    LET c == withDefault(body.category, "birthday")
        a == withDefault(body.artStyle, "editorial-painterly")
    IN IF c.type # "string" THEN <<toUpperCaseError("category", c)>>
       ELSE IF a.type # "string" THEN <<toUpperCaseError("artStyle", a)>>
       ELSE << >>

\* Variant: the image model asked with the user's description.
imageRequestFromDescription(imagePrompt, body) == body.description.value
\* generateImage(imagePrompt): the prompt sent to the image model.
imageRequest(imagePrompt, body) == imagePrompt

\* if (value): an absent property and the empty string are both falsy.
Truthy(value) == value # Undefined /\ value # ""

\* Variant: data.url consulted before data.image.
imageUrlOfUrlFirst(data) ==
    IF Truthy(data.url) THEN << <<data.url>> >>
    ELSE IF Truthy(data.image) THEN << <<"data:image/png;base64,", data.image>> >>
    ELSE << >>
\* Variant: data.url returned without the test that it is there.
imageUrlOfUnchecked(data) ==
    IF Truthy(data.image) THEN << <<"data:image/png;base64,", data.image>> >>
    ELSE << <<data.url>> >>
\* generateImage after its fetch: data.image first, then data.url, else an error.
\* << >> stands for the thrown "No image in Reve response".
imageUrlOf(data) ==
    IF Truthy(data.image) THEN << <<"data:image/png;base64,", data.image>> >>
    ELSE IF Truthy(data.url) THEN << <<data.url>> >>
    ELSE << >>

\* Variant: the text model called without the check of REVE_API_KEY.
POSTReveKeyUnchecked ==
    /\ route.pc = "idle"
    /\ \E body \in RouteBodies, env \in RouteEnvs :
         LET r == [route EXCEPT !.body = <<body>>, !.env = <<env>>]
             answer(resp) == [r EXCEPT !.pc = "done", !.response = <<resp>>]
         IN route' =
              IF ~body.read
              THEN answer(errorResponse(500, caughtMessage(body.thrown[1])))
              ELSE IF body.description.type # "string" \/ body.description.value = ""
              THEN answer(errorResponse(400, "Description is required"))
              ELSE IF ~env.CLAUDE_API_KEY
              THEN answer(errorResponse(500, "Claude API key not configured"))
              ELSE IF promptError(body) # << >>
              THEN answer(errorResponse(500, promptError(body)[1]))
              ELSE [r EXCEPT !.pc = "claude", !.claudeCalls = <<promptRequest(body)>>]
    /\ UNCHANGED <<description, insideMessage, messageFontSize, isLoading,
                   generatedImage, error, pending, savedPdf, pdfLog,
                   category, artStyle, shareVars>>
\* POST up to its first await of an external service: the body is read (a
\* throw there is answered 500 by the catch block, with the error's own
\* message) and validated, the keys are checked, generateImagePrompt builds
\* its prompt (a throw there is answered 500 as well) and calls the text
\* model.
POST ==
    /\ route.pc = "idle"
    /\ \E body \in RouteBodies, env \in RouteEnvs :
         LET r == [route EXCEPT !.body = <<body>>, !.env = <<env>>]
             answer(resp) == [r EXCEPT !.pc = "done", !.response = <<resp>>]
         IN route' =
              IF ~body.read
              THEN answer(errorResponse(500, caughtMessage(body.thrown[1])))
              ELSE IF body.description.type # "string" \/ body.description.value = ""
              THEN answer(errorResponse(400, "Description is required"))
              ELSE IF ~env.CLAUDE_API_KEY
              THEN answer(errorResponse(500, "Claude API key not configured"))
              ELSE IF ~env.REVE_API_KEY
              THEN answer(errorResponse(500, "Reve API key not configured"))
              ELSE IF promptError(body) # << >>
              THEN answer(errorResponse(500, promptError(body)[1]))
              ELSE [r EXCEPT !.pc = "claude", !.claudeCalls = <<promptRequest(body)>>]
    /\ UNCHANGED <<description, insideMessage, messageFontSize, isLoading,
                   generatedImage, error, pending, savedPdf, pdfLog,
                   category, artStyle, shareVars>>

\* generateImagePrompt after its fetch, and POST up to the call of the
\* image model.
claudeReplied ==
    /\ route.pc = "claude"
    /\ \E reply \in ClaudeReplies :
         LET r == [route EXCEPT !.claudeReply = <<reply>>]
         IN route' =
              IF reply.kind = "ok"
              THEN [r EXCEPT !.pc = "reve",
                             !.reveCalls = <<imageRequest(reply.text, route.body[1])>>]
              ELSE [r EXCEPT !.pc = "done", !.response =
                      << errorResponse(500,
                            IF reply.kind = "status"
                            THEN "Failed to generate prompt with Claude"
                            ELSE caughtMessage(reply.thrown[1])) >>]
    /\ UNCHANGED <<description, insideMessage, messageFontSize, isLoading,
                   generatedImage, error, pending, savedPdf, pdfLog,
                   category, artStyle, shareVars>>

\* generateImage after its fetch, and POST to its response.
reveReplied ==
    /\ route.pc = "reve"
    /\ \E reply \in ReveReplies :
         LET r == [route EXCEPT !.pc = "done", !.reveReply = <<reply>>]
         IN route' =
              IF reply.kind = "status"
              THEN [r EXCEPT !.response =
                      <<errorResponse(500, "Failed to generate image with Reve")>>]
              ELSE IF reply.kind = "throw"
              THEN [r EXCEPT !.response =
                      <<errorResponse(500, caughtMessage(reply.thrown[1]))>>]
              ELSE IF imageUrlOf(reply) = << >>
              THEN [r EXCEPT !.response =
                      <<errorResponse(500, "No image in Reve response")>>]
              ELSE [r EXCEPT !.response =
                      <<successResponse(imageUrlOf(reply)[1], route.claudeReply[1].text)>>]
    /\ UNCHANGED <<description, insideMessage, messageFontSize, isLoading,
                   generatedImage, error, pending, savedPdf, pdfLog,
                   category, artStyle, shareVars>>

---------------------------------------------------------------------------
(* The page: state after the first render, and its handlers *)

\* The share state of the first render: no menu, no message, nothing pending.
ShareIdle ==
    /\ webShareAvailable = FALSE
    /\ showShareMenu = FALSE
    /\ shareStatus = << >>
    /\ timers = 0
    /\ nativeSharePending = 0
    /\ copyPending = 0
    /\ shareLog = "none"

Init ==
    /\ description = << >>
    /\ insideMessage = << >>
    /\ messageFontSize = "medium"
    /\ isLoading = FALSE
    /\ generatedImage = << >>
    /\ error = << >>
    /\ pending = 0
    /\ savedPdf = << >>
    /\ pdfLog = "none"
    /\ route = RouteIdle
    /\ category = "birthday"
    /\ artStyle = "editorial-painterly"
    /\ ShareIdle

\* The document's click listener (handleClickOutside) for a click on an
\* element outside .share-menu-container.  The click bubbles to the
\* document after the element's own onClick has run, so the listener acts
\* in the same step: a shown menu is closed, a closed one stays closed.
clickOutside ==
    /\ showShareMenu' = FALSE
    /\ UNCHANGED <<webShareAvailable, shareStatus, timers, nativeSharePending,
                   copyPending, shareLog>>

\* onChange of the description textarea (disabled while loading).
setDescription ==
    /\ ~isLoading
    /\ \E d \in Descriptions : description' = d
    /\ UNCHANGED <<insideMessage, messageFontSize, isLoading, generatedImage,
                   error, pending, savedPdf, pdfLog, route,
                   category, artStyle, shareVars>>

\* onClick of an occasion button (a click outside the share menu).
setCategory ==
    /\ \E c \in PageCategories : category' = c
    /\ clickOutside
    /\ UNCHANGED <<description, insideMessage, messageFontSize, isLoading, generatedImage,
                   error, pending, savedPdf, pdfLog, route, artStyle>>

\* onClick of an art-style button (a click outside the share menu).
setArtStyle ==
    /\ \E s \in PageArtStyles : artStyle' = s
    /\ clickOutside
    /\ UNCHANGED <<description, insideMessage, messageFontSize, isLoading, generatedImage,
                   error, pending, savedPdf, pdfLog, route, category>>

\* onChange of the inside-message textarea.
setInsideMessage ==
    /\ \E m \in PageMessages : insideMessage' = m
    /\ UNCHANGED <<description, messageFontSize, isLoading, generatedImage,
                   error, pending, savedPdf, pdfLog, route,
                   category, artStyle, shareVars>>

\* onClick of a font-size button (a click outside the share menu).
setMessageFontSize ==
    /\ \E f \in FontIds : messageFontSize' = f
    /\ clickOutside
    /\ UNCHANGED <<description, insideMessage, isLoading, generatedImage,
                   error, pending, savedPdf, pdfLog, route,
                   category, artStyle>>

\* Variant: the previous card kept while the next one is generated.
startGenerationKeepImage ==
    /\ isLoading' = TRUE
    /\ error' = << >>
    /\ pending' = pending + 1
    /\ clickOutside
    /\ UNCHANGED <<description, insideMessage, messageFontSize, generatedImage, savedPdf,
                   pdfLog, route, category, artStyle>>
\* handleSubmit up to its await: the request is sent.  The handler is
\* reached by a click on the submit button or on a regenerate button, both
\* outside the share menu.
startGeneration ==
    /\ isLoading' = TRUE
    /\ error' = << >>
    /\ generatedImage' = << >>
    /\ pending' = pending + 1
    /\ clickOutside
    /\ UNCHANGED <<description, insideMessage, messageFontSize, savedPdf, pdfLog, route,
                   category, artStyle>>

\* Variant: the submit button never disabled while loading.
handleSubmitWhileLoading ==
    /\ ~IsBlank(description)
    /\ startGeneration
\* The form's submit button (disabled while loading or without a description).
handleSubmit ==
    /\ ~isLoading
    /\ ~IsBlank(description)
    /\ startGeneration

\* The regenerate button, shown with the generated image and disabled
\* while loading (a disabled button receives no click).  Without a
\* description the handler returns at once and the click only closes the
\* share menu.
handleRegenerate ==
    /\ generatedImage # << >>
    /\ IF isLoading
       THEN UNCHANGED vars
       ELSE IF IsBlank(description)
       THEN /\ clickOutside
            /\ UNCHANGED <<description, insideMessage, messageFontSize, isLoading,
                           generatedImage, error, pending, savedPdf, pdfLog, route,
                           category, artStyle>>
       ELSE startGeneration

\* handleSubmit after the await: response.ok, setGeneratedImage(data.imageUrl).
fetchSucceeded ==
    /\ pending > 0
    /\ \E img \in PageImages : generatedImage' = <<img>>
    /\ isLoading' = FALSE
    /\ pending' = pending - 1
    /\ UNCHANGED <<description, insideMessage, messageFontSize, error, savedPdf, pdfLog, route,
                   category, artStyle, shareVars>>

\* Variant: the catch branch without the finally block.
fetchFailedNoFinally ==
    /\ pending > 0
    /\ \E failure \in FetchFailures : error' = <<failureMessage(failure)>>
    /\ pending' = pending - 1
    /\ UNCHANGED <<description, insideMessage, messageFontSize, isLoading, generatedImage,
                   savedPdf, pdfLog, route, category, artStyle, shareVars>>
\* handleSubmit after the await: the catch branch, setError(message).
fetchFailed ==
    /\ pending > 0
    /\ \E failure \in FetchFailures : error' = <<failureMessage(failure)>>
    /\ isLoading' = FALSE
    /\ pending' = pending - 1
    /\ UNCHANGED <<description, insideMessage, messageFontSize, generatedImage,
                   savedPdf, pdfLog, route,
                   category, artStyle, shareVars>>

\* Variant: the handler without its guard on generatedImage (addImage then
\* throws for the missing image).
handleDownloadPDFUnguarded ==
    /\ IF generatedImage # << >> /\ generatedImage[1].readable
       THEN /\ savedPdf' = <<RenderPDF(generatedImage[1], insideMessage, messageFontSize)>>
            /\ pdfLog' = "saved"
       ELSE /\ savedPdf' = savedPdf
            /\ pdfLog' = "error"
    /\ clickOutside
    /\ UNCHANGED <<description, insideMessage, messageFontSize, isLoading,
                   generatedImage, error, pending, route,
                   category, artStyle>>
\* Variant: the catch block reporting the failure with setError.
handleDownloadPDFReportsError ==
    IF generatedImage = << >>
    THEN UNCHANGED vars
    ELSE /\ IF generatedImage[1].readable
            THEN /\ savedPdf' = <<RenderPDF(generatedImage[1], insideMessage, messageFontSize)>>
                 /\ pdfLog' = "saved"
                 /\ error' = error
            ELSE /\ savedPdf' = savedPdf
                 /\ pdfLog' = "error"
                 /\ error' = <<"Failed to create the PDF">>
         /\ clickOutside
         /\ UNCHANGED <<description, insideMessage, messageFontSize, isLoading,
                        generatedImage, pending, route, category, artStyle>>
\* The download-PDF button, shown with the generated image and outside the
\* share menu.  The handler has no await: it runs to its end in one step.
\* An image jsPDF cannot read makes addImage throw; the catch logs the
\* failure and nothing is saved.  The handler sets no state; the click
\* that reached it closes a shown share menu.
handleDownloadPDF ==
    IF generatedImage = << >>
    THEN UNCHANGED vars
    ELSE /\ IF generatedImage[1].readable
            THEN /\ savedPdf' = <<RenderPDF(generatedImage[1], insideMessage, messageFontSize)>>
                 /\ pdfLog' = "saved"
            ELSE /\ savedPdf' = savedPdf
                 /\ pdfLog' = "error"
         /\ clickOutside
         /\ UNCHANGED <<description, insideMessage, messageFontSize, isLoading,
                        generatedImage, error, pending, route,
                        category, artStyle>>

---------------------------------------------------------------------------
(* The share menu and the share handlers *)

\* The Share button: setShowShareMenu(!showShareMenu).  It is rendered
\* with the generated image.
toggleShareMenu ==
    /\ generatedImage # << >>
    /\ showShareMenu' = ~showShareMenu
    /\ UNCHANGED <<description, insideMessage, messageFontSize, isLoading, generatedImage,
                   error, pending, savedPdf, pdfLog, route, category, artStyle,
                   webShareAvailable, shareStatus, timers, nativeSharePending,
                   copyPending, shareLog>>

\* handleClickOutside: a click outside .share-menu-container while the
\* menu is shown.
handleClickOutside ==
    /\ showShareMenu
    /\ showShareMenu' = FALSE
    /\ UNCHANGED <<description, insideMessage, messageFontSize, isLoading, generatedImage,
                   error, pending, savedPdf, pdfLog, route, category, artStyle,
                   webShareAvailable, shareStatus, timers, nativeSharePending,
                   copyPending, shareLog>>

\* setTimeout(() => setShareStatus(null), ...): one pending timer fires.
timerFired ==
    /\ timers > 0
    /\ timers' = timers - 1
    /\ shareStatus' = << >>
    /\ UNCHANGED <<description, insideMessage, messageFontSize, isLoading, generatedImage,
                   error, pending, savedPdf, pdfLog, route, category, artStyle,
                   webShareAvailable, showShareMenu, nativeSharePending,
                   copyPending, shareLog>>

\* setShareStatus(message); setTimeout(() => setShareStatus(null), ...)
showStatus(message) ==
    /\ shareStatus' = <<message>>
    /\ timers' = timers + 1

\* handleNativeShare up to its first await (getImageBlob).  The handler is
\* bound to buttons shown only when the Web Share API is available: the
\* "Share..." entry of the shown menu, inside .share-menu-container, and
\* the Share button of the narrow layout, outside it, whose click closes
\* a shown menu.
handleNativeShare ==
    /\ webShareAvailable
    /\ nativeSharePending < MaxShares
    /\ IF generatedImage = << >>
       THEN UNCHANGED vars
       ELSE /\ nativeSharePending' = nativeSharePending + 1
            /\ \E inMenu \in BOOLEAN :
                 IF inMenu
                 THEN showShareMenu /\ showShareMenu' = showShareMenu
                 ELSE showShareMenu' = FALSE
            /\ UNCHANGED <<description, insideMessage, messageFontSize, isLoading,
                           generatedImage, error, pending, savedPdf, pdfLog, route,
                           category, artStyle, webShareAvailable,
                           shareStatus, timers, copyPending, shareLog>>

\* How handleNativeShare ends: navigator.share(files) resolved, the text
\* share resolved, the image could not be loaded or a share rejected, or
\* the user dismissed the share sheet (AbortError).
NativeShareOutcomes == { "file-shared", "text-shared", "share-failed", "share-cancelled" }

\* handleNativeShare after its awaits, to its end.
nativeShareSettled ==
    /\ nativeSharePending > 0
    /\ nativeSharePending' = nativeSharePending - 1
    /\ \E outcome \in NativeShareOutcomes :
         /\ shareLog' = outcome
         /\ IF outcome = "file-shared"
            THEN /\ timers < MaxTimers
                 /\ showStatus("Shared successfully!")
                 /\ showShareMenu' = showShareMenu
            ELSE IF outcome = "text-shared"
            THEN /\ timers < MaxTimers
                 /\ showStatus("Shared successfully!")
                 /\ showShareMenu' = FALSE
            ELSE IF outcome = "share-failed"
            THEN /\ timers < MaxTimers
                 /\ showStatus("Share failed. Try copying instead.")
                 /\ showShareMenu' = FALSE
            ELSE /\ UNCHANGED <<shareStatus, timers>>
                 /\ showShareMenu' = FALSE
    /\ UNCHANGED <<description, insideMessage, messageFontSize, isLoading, generatedImage,
                   error, pending, savedPdf, pdfLog, route, category, artStyle,
                   webShareAvailable, copyPending>>

\* handleCopyImage up to its first await (getImageBlob).  The handler is
\* bound to an entry of the share menu.
handleCopyImage ==
    /\ showShareMenu
    /\ copyPending < MaxShares
    /\ IF generatedImage = << >>
       THEN UNCHANGED vars
       ELSE /\ copyPending' = copyPending + 1
            /\ UNCHANGED <<description, insideMessage, messageFontSize, isLoading,
                           generatedImage, error, pending, savedPdf, pdfLog, route,
                           category, artStyle, webShareAvailable, showShareMenu,
                           shareStatus, timers, nativeSharePending, shareLog>>

\* The status message of each way handleCopyImage ends: the image was
\* written to the clipboard, the image URL was written instead, or both
\* writes failed.
CopyMessages ==
    [ copied |-> "Image copied to clipboard!",
      urlCopied |-> "Image URL copied to clipboard!",
      copyFailed |-> "Copy failed. Try downloading instead." ]

\* handleCopyImage after its awaits, to its end.
copyImageSettled ==
    /\ copyPending > 0
    /\ timers < MaxTimers
    /\ copyPending' = copyPending - 1
    /\ \E outcome \in DOMAIN CopyMessages :
         /\ shareLog' = outcome
         /\ showStatus(CopyMessages[outcome])
    /\ showShareMenu' = FALSE
    /\ UNCHANGED <<description, insideMessage, messageFontSize, isLoading, generatedImage,
                   error, pending, savedPdf, pdfLog, route, category, artStyle,
                   webShareAvailable, nativeSharePending>>

\* handleShareTwitter: window.open of the share intent, the menu closed.
handleShareTwitter ==
    /\ showShareMenu
    /\ showShareMenu' = FALSE
    /\ shareLog' = "twitter"
    /\ UNCHANGED <<description, insideMessage, messageFontSize, isLoading, generatedImage,
                   error, pending, savedPdf, pdfLog, route, category, artStyle,
                   webShareAvailable, shareStatus, timers, nativeSharePending, copyPending>>

\* Variant: the hint shown without the timer that clears it.
handleShareFacebookNoTimer ==
    /\ showShareMenu
    /\ shareStatus' = <<"Download the image first, then share on Facebook!">>
    /\ showShareMenu' = FALSE
    /\ shareLog' = "facebook"
    /\ UNCHANGED <<description, insideMessage, messageFontSize, isLoading, generatedImage,
                   error, pending, savedPdf, pdfLog, route, category, artStyle,
                   webShareAvailable, timers, nativeSharePending, copyPending>>
\* handleShareFacebook: the hint, its timer, handleDownloadPNG (which
\* touches no state of the page), the menu closed.
handleShareFacebook ==
    /\ showShareMenu
    /\ timers < MaxTimers
    /\ showStatus("Download the image first, then share on Facebook!")
    /\ showShareMenu' = FALSE
    /\ shareLog' = "facebook"
    /\ UNCHANGED <<description, insideMessage, messageFontSize, isLoading, generatedImage,
                   error, pending, savedPdf, pdfLog, route, category, artStyle,
                   webShareAvailable, nativeSharePending, copyPending>>

\* The page proper: the form, the generation request and the PDF download.
\* The share menu is explored by ShareSpec.
Next ==
    \/ setDescription
    \/ setCategory
    \/ setArtStyle
    \/ setInsideMessage
    \/ setMessageFontSize
    \/ handleSubmit
    \/ handleRegenerate
    \/ fetchSucceeded
    \/ fetchFailed
    \/ handleDownloadPDF

Spec == Init /\ [][Next]_vars

\* The page, every request to /api/generate settling in the end: the
\* promise of fetch resolves or rejects.
LiveSpec == Spec /\ WF_vars(fetchSucceeded \/ fetchFailed)

---------------------------------------------------------------------------
(* The layout on its own: handleDownloadPDF applied to every combination   *)
(* of image, message and font tier of the bounded input sets.              *)

LayoutInit ==
    /\ description = << >>
    /\ insideMessage \in LayoutMessages
    /\ messageFontSize \in FontIds
    /\ isLoading = FALSE
    /\ generatedImage \in { << >> } \cup { <<img>> : img \in Images }
    /\ error = << >>
    /\ pending = 0
    /\ savedPdf = << >>
    /\ pdfLog = "none"
    /\ route = RouteIdle
    /\ category = "birthday"
    /\ artStyle = "editorial-painterly"
    /\ ShareIdle

LayoutNext == handleDownloadPDF

LayoutSpec == LayoutInit /\ [][LayoutNext]_vars

\* Images without extent (a header announcing a zero width or height).
\* The handler never reads the dimensions; whether jsPDF's addImage accepts
\* such data is not decided by this code, so both outcomes are inputs.
DegenerateImages ==
    { Image(1000, 0, TRUE), Image(1000, 0, FALSE),
      Image(0, 1500, TRUE), Image(0, 1500, FALSE) }

\* The layout over every image, those without extent included.
AnyImageInit ==
    /\ description = << >>
    /\ insideMessage \in LayoutMessages
    /\ messageFontSize \in FontIds
    /\ isLoading = FALSE
    /\ generatedImage \in { << >> } \cup { <<img>> : img \in Images \cup DegenerateImages }
    /\ error = << >>
    /\ pending = 0
    /\ savedPdf = << >>
    /\ pdfLog = "none"
    /\ route = RouteIdle
    /\ category = "birthday"
    /\ artStyle = "editorial-painterly"
    /\ ShareIdle

AnyImageSpec == AnyImageInit /\ [][LayoutNext]_vars

\* The route serving one request, on the server: it shares no state with
\* the page, which sees it as fetchSucceeded or fetchFailed.
RouteNext ==
    \/ POST
    \/ claudeReplied
    \/ reveReplied

RouteSpec == Init /\ [][RouteNext]_vars

\* The page showing a generated card, after the mount effect has set
\* webShareAvailable from canUseWebShare().
ShareInit ==
    /\ description = <<"d", "o", "g">>
    /\ insideMessage = <<"h", "i">>
    /\ messageFontSize = "medium"
    /\ isLoading = FALSE
    /\ generatedImage \in { <<img>> : img \in PageImages }
    /\ error = << >>
    /\ pending = 0
    /\ savedPdf = << >>
    /\ pdfLog = "none"
    /\ route = RouteIdle
    /\ category = "birthday"
    /\ artStyle = "editorial-painterly"
    /\ webShareAvailable \in BOOLEAN
    /\ showShareMenu = FALSE
    /\ shareStatus = << >>
    /\ timers = 0
    /\ nativeSharePending = 0
    /\ copyPending = 0
    /\ shareLog = "none"

\* The share menu, the share handlers and their timers, interleaved with
\* regeneration and the PDF download.
ShareNext ==
    \/ toggleShareMenu
    \/ handleClickOutside
    \/ handleNativeShare
    \/ nativeShareSettled
    \/ handleCopyImage
    \/ copyImageSettled
    \/ handleShareTwitter
    \/ handleShareFacebook
    \/ timerFired
    \/ handleRegenerate
    \/ fetchSucceeded
    \/ fetchFailed
    \/ handleDownloadPDF

ShareSpec == ShareInit /\ [][ShareNext]_vars

\* The same, every pending timer firing in the end.
ShareLiveSpec == ShareSpec /\ WF_vars(timerFired)
---------------------------------------------------------------------------
(* Properties of the saved document.  Under LayoutSpec the                 *)
(* inputs never change, so the saved document is the layout of the current *)
(* generatedImage, insideMessage and messageFontSize.                      *)

saved == pdfLog = "saved"
doc == savedPdf[1]
image == generatedImage[1]

\* The right panel of a page: {foldX, 0, foldX, page.height}.
rightPanel ==
    [x |-> pageWidth \div 2, y |-> 0, width |-> pageWidth \div 2, height |-> pageHeight]

\* C1: the rectangle the front-cover image is drawn into has the image's
\* own width/height ratio (drawWidth / drawHeight = intrinsicWidth /
\* intrinsicHeight), so the artwork is never distorted.
C1_AspectRatioPreserved ==
    saved =>
        doc.page1.image.width * image.intrinsicHeight
            = doc.page1.image.height * image.intrinsicWidth

\* C2: the rectangle the image is drawn into lies fully inside its target,
\* the right panel of page 1.
C2_ImageInsidePanel ==
    saved =>
        LET r == doc.page1.image
            t == rightPanel
        IN /\ r.x >= t.x
           /\ r.y >= t.y
           /\ r.x + r.width <= t.x + t.width
           /\ r.y + r.height <= t.y + t.height

\* C2 witness: a landscape image has been placed on the front cover.
C2_Witness ==
    /\ saved
    /\ image.intrinsicWidth > image.intrinsicHeight
    /\ doc.page1.image.width > 0
    /\ doc.page1.image.height > 0

\* C3: the placement is the aspect-fit rectangle: an image relatively wider
\* than the panel fills the width and is centered vertically with height
\* target.width / imgRatio; otherwise it fills the height and is centered
\* horizontally with width target.height * imgRatio.  (Ratios are compared
\* and equated by cross-multiplication.)
C3_AspectFitPlacement ==
    saved =>
        LET r == doc.page1.image
            t == rightPanel
            iw == image.intrinsicWidth
            ih == image.intrinsicHeight
        IN IF iw * t.height > t.width * ih
           THEN /\ r.width = t.width
                /\ r.height * iw = t.width * ih
                /\ r.x = t.x
                /\ 2 * (r.y - t.y) * iw = t.height * iw - t.width * ih
           ELSE /\ r.height = t.height
                /\ r.width * ih = t.height * iw
                /\ r.y = t.y
                /\ 2 * (r.x - t.x) * ih = t.width * ih - t.height * iw

\* C4: Scenario A: a 1000 x 1500 image on the 11 x 8.5 page is drawn 5.5
\* wide and 8.25 high, 0.125 below the top of the right panel.
C4_ScenarioA ==
    (saved /\ image.intrinsicWidth = 1000 /\ image.intrinsicHeight = 1500) =>
        doc.page1.image =
            [x |-> (11 * U) \div 2, y |-> U \div 8,
             width |-> (11 * U) \div 2, height |-> (33 * U) \div 4]

\* C5: the fold line is the vertical line x = w/2 from 0 to h, the same on
\* page 1 and on page 2; the panels left and right of it are both w/2 wide
\* (together the page width) and h high, and the front cover occupies the
\* right one.
C5_FoldGeometry ==
    saved =>
        LET f1 == doc.page1.fold
            f2 == doc.page2.fold
            leftWidth == f1.x1 - 0
            rightWidth == pageWidth - f1.x1
        IN /\ f1.x1 = f1.x2 /\ 2 * f1.x1 = pageWidth
           /\ f1.y1 = 0 /\ f1.y2 = pageHeight
           /\ f2 = f1
           /\ leftWidth = rightWidth
           /\ leftWidth + rightWidth = pageWidth
           /\ doc.page1.image.x = f1.x1
           /\ doc.page1.image.width = rightWidth
           /\ doc.page1.image.height = f1.y2 - f1.y1

\* C5 witness: a card with a message has been laid out on both pages.
C5_Witness ==
    /\ saved
    /\ doc.page2.text # << >>
    /\ doc.page1.fold.x1 > 0

\* The line height a font id stands for and the line capacity the claims
\* derive from it: floor((panel.height - 2 * margin) / lineHeight).
claimLineHeight == lineHeightInches(fontSizeConfig(messageFontSize).size)
claimMaxLines == (pageHeight - 2 * U) \div claimLineHeight
claimLines == wrappedLines(insideMessage, messageFontSize)

\* C6: of the wrapped lines exactly min(lineCount, maxLines) are emitted,
\* they are the first wrapped lines in their order, and the truncation mark
\* is present exactly when lineCount > maxLines.
C6_Truncation ==
    (saved /\ ~IsBlank(insideMessage)) =>
        LET shown == doc.page2.text
            lines == claimLines
        IN /\ Len(shown) = Min(Len(lines), claimMaxLines)
           /\ \A i \in 1..Len(shown) : shown[i].str = lines[i]
           /\ (doc.page2.ellipsis # << >>) <=> (Len(lines) > claimMaxLines)

\* C6 witness: a message with more lines than fit has been laid out.
C6_Witness ==
    /\ saved
    /\ ~IsBlank(insideMessage)
    /\ Len(claimLines) > claimMaxLines
    /\ Len(doc.page2.text) = claimMaxLines
    /\ doc.page2.ellipsis # << >>

\* C7: Scenario B: at font tier medium (14 pt, line height 14 * 1.4 / 72
\* inch) with one-inch margins on the 8.5 inch panel, 23 lines fit, and a
\* message wrapping to 30 lines is emitted as exactly 23 lines, truncated.
C7_ScenarioB ==
    (saved /\ messageFontSize = "medium" /\ ~IsBlank(insideMessage)) =>
        /\ Len(doc.page2.text) <= 23
        /\ Len(claimLines) >= 23 => Len(doc.page2.text) = 23
        /\ Len(claimLines) = 30 =>
              /\ Len(doc.page2.text) = 23
              /\ doc.page2.ellipsis # << >>

\* C7 witness: a 30-line message wrapped by width has been laid out at medium.
C7_Witness ==
    /\ saved
    /\ messageFontSize = "medium"
    /\ Len(claimLines) = 30
    /\ \A i \in 1..Len(insideMessage) : insideMessage[i] # "\n"

\* C8: the first line is at max(margin, (panel.height - lineCount *
\* lineHeight) / 2): never above the one-inch top margin, and with equal
\* space above and below the block whenever the whole block fits.
C8_StartY ==
    (saved /\ ~IsBlank(insideMessage)) =>
        LET n == Len(claimLines)
            y == doc.page2.text[1].y
        IN /\ doc.page2.text # << >>
           /\ y = Max(U, (pageHeight - n * claimLineHeight) \div 2)
           /\ y >= U
           /\ n <= claimMaxLines => y - 0 = pageHeight - (y + n * claimLineHeight)

\* C8 witness: a block of several lines that fits has been centered below
\* the top margin.
C8_Witness ==
    /\ saved
    /\ ~IsBlank(insideMessage)
    /\ Len(claimLines) > 1
    /\ Len(claimLines) <= claimMaxLines
    /\ doc.page2.text[1].y > U

\* C9: a blank (empty or whitespace-only) message yields no text and
\* exactly 10 horizontal guide lines, evenly spaced from a fixed start,
\* strictly increasing, inside the page vertically and between the insets
\* of the right panel horizontally; a non-blank message yields a text block
\* and no guide lines.
C9_WritingLines ==
    saved =>
        LET w == doc.page2.writingLines
            inset == (3 * U) \div 4
        IN IF IsBlank(insideMessage)
           THEN /\ doc.page2.text = << >>
                /\ doc.page2.ellipsis = << >>
                /\ Len(w) = 10
                /\ \A k \in 1..Len(w) :
                      /\ w[k].y1 = w[k].y2
                      /\ w[k].y1 = 2 * U + (k - 1) * (U \div 2)
                      /\ w[k].y1 >= 0 /\ w[k].y1 <= pageHeight
                      /\ w[k].x1 >= rightPanel.x + inset
                      /\ w[k].x2 <= rightPanel.x + rightPanel.width - inset
                      /\ w[k].x1 < w[k].x2
                /\ \A k \in 1..(Len(w) - 1) : w[k].y1 < w[k + 1].y1
           ELSE /\ doc.page2.text # << >>
                /\ w = << >>

\* C9 witness: a whitespace-only message has produced the guide lines.
C9_Witness ==
    /\ saved
    /\ insideMessage # << >>
    /\ IsBlank(insideMessage)
    /\ Len(doc.page2.writingLines) = 10

\* C11: an image whose intrinsic width or height is not positive is
\* rejected: no placement rectangle and no document are produced for it.
C11_DegenerateImageRejected ==
    (generatedImage # << >>
        /\ (image.intrinsicWidth <= 0 \/ image.intrinsicHeight <= 0)) =>
        /\ pdfLog # "saved"
        /\ savedPdf = << >>

\* C13: a failure of the document generation becomes visible to the user:
\* once handleDownloadPDF has failed, the page shows an error.
C13_FailureVisible ==
    pdfLog = "error" => error # << >>

\* C16: while there is no generated image (before the first generation,
\* while a request is in flight, after a failed one) no step of the page,
\* a click on download-PDF included, produces or attempts a document.
C16_NoImageNoDocument ==
    [][generatedImage = << >> => (savedPdf' = savedPdf /\ pdfLog' = pdfLog)]_vars

\* C16 witness: a request is in flight, the image is cleared, and a
\* document saved earlier shows that downloads were possible before.
C16_Witness ==
    /\ generatedImage = << >>
    /\ isLoading
    /\ pending > 0
    /\ savedPdf # << >>

---------------------------------------------------------------------------
(* Properties of the generate route, under RouteSpec *)

\* Whether the text model / the image model has answered with an OK status.
claudeSucceeded == route.claudeReply # << >> /\ route.claudeReply[1].kind = "ok"
reveSucceeded ==
    /\ route.reveReply # << >>
    /\ route.reveReply[1].kind = "ok"
    /\ (Truthy(route.reveReply[1].image) \/ Truthy(route.reveReply[1].url))

\* C17: the two services are called in sequence.  Each is called at most
\* once; the image model is called only when the text model has been called
\* and has answered successfully, and the prompt it is sent is exactly the
\* text of that answer; a response of status 200 is given only when both
\* calls succeeded, and it carries an image URL and that same prompt.
C17_CallsInSequence ==
    /\ Len(route.claudeCalls) <= 1 /\ Len(route.reveCalls) <= 1
    /\ route.reveCalls # << >> =>
         /\ route.claudeCalls # << >>
         /\ claudeSucceeded
         /\ route.reveCalls[1] = route.claudeReply[1].text
    /\ (route.response # << >> /\ route.response[1].status = 200) =>
         /\ claudeSucceeded /\ route.reveCalls # << >> /\ reveSucceeded
         /\ route.response[1].imageUrl # << >>
         /\ route.response[1].prompt = <<route.claudeReply[1].text>>
         /\ route.response[1].error = << >>

\* A request answered with status 200, the text model having written a
\* prompt different from the description.
C17_Witness ==
    /\ route.pc = "done" /\ route.response[1].status = 200
    /\ route.reveCalls = <<"prompt-2">>
    /\ route.body[1].description.value # route.reveCalls[1]

---------------------------------------------------------------------------
(* Line height, truncation mark and fixed marks (LayoutSpec) *)

\* The point size of each font tier, as the tiers are documented.
tierPointSize == [small |-> 10, medium |-> 14, large |-> 18]

\* C18: the line height used for a message is pointSize * 1.4 / 72 inch,
\* with pointSize 10, 14, 18 for small, medium, large: successive rendered
\* lines are that far apart (distance * 72 = pointSize * 1.4, both sides
\* times 5 and in 1/U inch), and the number of lines that fit is the
\* available height divided by it.
C18_LineHeight ==
    (saved /\ ~IsBlank(insideMessage)) =>
        LET shown == doc.page2.text
            pointSize == tierPointSize[messageFontSize]
        IN /\ \A i \in 1..(Len(shown) - 1) :
                 (shown[i + 1].y - shown[i].y) * 5 * PointsPerInch = pointSize * 7 * U
           /\ Len(shown) * pointSize * 7 * U <= (pageHeight - 2 * U) * 5 * PointsPerInch
           /\ Len(shown) < Len(claimLines) =>
                 (Len(shown) + 1) * pointSize * 7 * U > (pageHeight - 2 * U) * 5 * PointsPerInch

\* C18 witness: a message of several lines laid out at tier large, the
\* second line 18 * 1.4 / 72 = 0.35 inch below the first.
C18_Witness ==
    /\ saved
    /\ messageFontSize = "large"
    /\ Len(doc.page2.text) >= 2
    /\ doc.page2.text[2].y - doc.page2.text[1].y = (35 * U) \div 100

\* C19: the truncation mark is drawn if and only if the message was
\* truncated (it is laid out and wraps to more lines than fit), and then
\* it is a single mark at x = panel.x + inset (inset 0.75 inch), y =
\* page.height - 0.5 inch, for every position of the last rendered line.
C19_EllipsisFixed ==
    saved =>
        LET marks == doc.page2.ellipsis
            truncated == ~IsBlank(insideMessage) /\ Len(claimLines) > claimMaxLines
        IN /\ (marks # << >>) <=> truncated
           /\ marks # << >> =>
                /\ Len(marks) = 1
                /\ marks[1].str = <<".", ".", ".">>
                /\ marks[1].x = rightPanel.x + (3 * U) \div 4
                /\ marks[1].y = pageHeight - U \div 2

\* C19 witness: a truncated message at tier large, whose last rendered line
\* is not one line height above the mark.
C19_Witness ==
    /\ saved
    /\ messageFontSize = "large"
    /\ doc.page2.ellipsis # << >>
    /\ Len(doc.page2.text) = claimMaxLines
    /\ doc.page2.text[claimMaxLines].y + claimLineHeight # doc.page2.ellipsis[1].y

\* The left panel of a page, {0, 0, foldX, page.height}, and membership.
leftPanel == [x |-> 0, y |-> 0, width |-> pageWidth \div 2, height |-> pageHeight]
InLeftPanel(p) ==
    /\ leftPanel.x <= p.x /\ p.x <= leftPanel.x + leftPanel.width
    /\ leftPanel.y <= p.y /\ p.y <= leftPanel.y + leftPanel.height

\* The two ends of a stroke; the ends of the decoration's strokes; and the
\* end points of the decoration: the ends at which no other stroke continues.
Ends(stroke) == { [x |-> stroke.x1, y |-> stroke.y1], [x |-> stroke.x2, y |-> stroke.y2] }
StrokeEnds(strokes) == UNION { Ends(strokes[i]) : i \in 1..Len(strokes) }
EndPoints(strokes) ==
    { p \in StrokeEnds(strokes) :
          Cardinality({ i \in 1..Len(strokes) : p \in Ends(strokes[i]) }) = 1 }

\* C20: the fixed marks of the left panels lie inside the left panel.  The
\* branding anchor is 0.3 inch right of and 0.3 inch above the panel's
\* bottom-left corner.  The decoration has exactly four end points: two at
\* offsets (0.3, 0.6) and (0.6, 0.3) from the top-left corner, two at the
\* same offsets from the bottom-right corner of the left panel; every point
\* of its strokes is in the panel, so none crosses the fold line.
C20_LeftPanelMarks ==
    saved =>
        LET a == (3 * U) \div 10
            b == (6 * U) \div 10
            right == leftPanel.x + leftPanel.width
            bottom == leftPanel.y + leftPanel.height
            strokes == doc.page2.flourishes
        IN /\ doc.page1.branding = [x |-> leftPanel.x + a, y |-> bottom - a]
           /\ InLeftPanel(doc.page1.branding)
           /\ Cardinality(EndPoints(strokes)) = 4
           /\ EndPoints(strokes) =
                { [x |-> leftPanel.x + a, y |-> leftPanel.y + b],
                  [x |-> leftPanel.x + b, y |-> leftPanel.y + a],
                  [x |-> right - b, y |-> bottom - a],
                  [x |-> right - a, y |-> bottom - b] }
           /\ \A p \in StrokeEnds(strokes) : InLeftPanel(p) /\ p.x < doc.page2.fold.x1

\* C20 witness: a saved document whose decoration has strokes ending near
\* the fold, 0.3 inch left of it.
C20_Witness ==
    /\ saved
    /\ \E p \in EndPoints(doc.page2.flourishes) : p.x = doc.page2.fold.x1 - (3 * U) \div 10
    /\ doc.page1.branding.y < pageHeight


\* C22: every rendered message line stays between the margins: for every
\* line count and font tier each rendered line has 1 inch <= y <=
\* page.height - 1 inch (7.5), truncated texts included, and the truncation
\* mark at page.height - 0.5 is strictly below the last rendered line.
C22_LinesBetweenMargins ==
    (saved /\ ~IsBlank(insideMessage)) =>
        LET shown == doc.page2.text
            marks == doc.page2.ellipsis
        IN /\ \A i \in 1..Len(shown) : U <= shown[i].y /\ shown[i].y <= pageHeight - U
           /\ marks # << >> =>
                /\ Len(shown) >= 1
                /\ marks[1].y = pageHeight - U \div 2
                /\ \A i \in 1..Len(shown) : shown[i].y < marks[1].y

\* C22 witness: a truncated message at tier small, its first line on the
\* top margin and its last line above the bottom margin.
C22_Witness ==
    /\ saved
    /\ messageFontSize = "small"
    /\ Len(claimLines) > claimMaxLines
    /\ doc.page2.text[1].y = U
    /\ doc.page2.text[Len(doc.page2.text)].y = U + (claimMaxLines - 1) * claimLineHeight
    /\ doc.page2.text[Len(doc.page2.text)].y <= pageHeight - U

---------------------------------------------------------------------------
(* Further properties of the generate route, under RouteSpec *)

\* The request received, and whether its description fails the check
\* (missing, empty or not a string) and whether a key is not configured.
received == route.body # << >> /\ route.body[1].read
descriptionInvalid ==
    \/ route.body[1].description.type # "string"
    \/ route.body[1].description.value = ""
keyMissing == ~route.env[1].CLAUDE_API_KEY \/ ~route.env[1].REVE_API_KEY
answered(status) ==
    /\ route.pc = "done"
    /\ route.response # << >>
    /\ route.response[1].status = status
    /\ route.response[1].error # << >>
    /\ route.response[1].imageUrl = << >>
\* The request answered with that status and that error message, and with
\* neither an image URL nor a prompt.
failedWith(status, message) ==
    /\ route.pc = "done"
    /\ route.response = << [ status |-> status, error |-> <<message>>,
                             imageUrl |-> << >>, prompt |-> << >> ] >>
noServiceCalled == route.claudeCalls = << >> /\ route.reveCalls = << >>

\* The message of the first key check that fails.
keyMessage ==
    IF ~route.env[1].CLAUDE_API_KEY THEN "Claude API key not configured"
    ELSE "Reve API key not configured"

\* C26 as stated: the route calls no external service for an invalid
\* request: a description that is missing, empty or not a string is
\* answered 400, and a CLAUDE_API_KEY or REVE_API_KEY that is not
\* configured is answered 500, in both cases with neither the text model
\* nor the image model called.
C26_MissingKeyAnswered500 ==
    received =>
        /\ descriptionInvalid => (answered(400) /\ noServiceCalled)
        /\ keyMissing => (answered(500) /\ noServiceCalled)

\* C26, amended: the description is checked before the keys.  Of a body
\* that was read, a description that is missing, empty or not a string is
\* answered 400 "Description is required", whether or not the keys are
\* configured; a valid description with CLAUDE_API_KEY or REVE_API_KEY not
\* configured is answered 500 with the message of the first missing key.
\* A body that could not be read is answered 500 with the message of the
\* error.  In all three cases neither the text model nor the image model
\* is called.
C26_InvalidRequestNoCall ==
    /\ received =>
        /\ descriptionInvalid =>
              (failedWith(400, "Description is required") /\ noServiceCalled)
        /\ (~descriptionInvalid /\ keyMissing) =>
              (failedWith(500, keyMessage) /\ noServiceCalled)
    /\ (route.body # << >> /\ ~route.body[1].read) =>
        /\ failedWith(500, route.body[1].thrown[1].message)
        /\ noServiceCalled

\* C26 witness: a request whose description is empty and whose keys are
\* both missing has been answered 400.
C26_Witness ==
    /\ received
    /\ route.body[1].description = [type |-> "string", value |-> ""]
    /\ ~route.env[1].CLAUDE_API_KEY /\ ~route.env[1].REVE_API_KEY
    /\ failedWith(400, "Description is required")
    /\ noServiceCalled

\* Whether the text-model call, the image-model call has failed: a status
\* that is not OK, a rejection, or an image answer with neither image nor url.
claudeFailed == route.claudeReply # << >> /\ route.claudeReply[1].kind # "ok"
reveFailed ==
    /\ route.reveReply # << >>
    /\ \/ route.reveReply[1].kind # "ok"
       \/ ~Truthy(route.reveReply[1].image) /\ ~Truthy(route.reveReply[1].url)

\* The message of the failure of the text-model call, of the image-model
\* call: the text thrown for a status that is not OK and for an image
\* answer with neither image nor url, the error's own message otherwise.
claudeFailureMessage ==
    IF route.claudeReply[1].kind = "status" THEN "Failed to generate prompt with Claude"
    ELSE route.claudeReply[1].thrown[1].message
reveFailureMessage ==
    IF route.reveReply[1].kind = "status" THEN "Failed to generate image with Reve"
    ELSE IF route.reveReply[1].kind = "throw" THEN route.reveReply[1].thrown[1].message
    ELSE "No image in Reve response"

\* C27: the route always answers with a response and never with a partial
\* success: a handler that has ended has answered, either 200 with an image
\* URL, the prompt and no error, or 400 or 500 with an error message and
\* neither image URL nor prompt; a failed text-model call is answered 500
\* with the message of that failure and the image model is not called; a
\* failed image-model call is answered 500 with the message of that
\* failure.
C27_NoPartialSuccess ==
    /\ route.pc = "done" <=> route.response # << >>
    /\ route.response # << >> =>
         LET resp == route.response[1]
         IN \/ /\ resp.status = 200
               /\ resp.error = << >>
               /\ resp.imageUrl # << >>
               /\ \A part \in 1..Len(resp.imageUrl[1]) : Truthy(resp.imageUrl[1][part])
               /\ resp.prompt # << >>
            \/ /\ resp.status \in {400, 500}
               /\ resp.error # << >>
               /\ resp.imageUrl = << >>
               /\ resp.prompt = << >>
    /\ claudeFailed => (failedWith(500, claudeFailureMessage) /\ route.reveCalls = << >>)
    /\ reveFailed => failedWith(500, reveFailureMessage)

\* C27 witness: the text model answered, the image model answered OK but
\* with neither image nor url, and the route answered 500.
C27_Witness ==
    /\ claudeSucceeded
    /\ route.reveReply # << >> /\ route.reveReply[1].kind = "ok"
    /\ reveFailed
    /\ failedWith(500, "No image in Reve response")

\* The image answer the route has processed, and the category and art style
\* of the request after the destructuring defaults.
imageAnswered == route.reveReply # << >> /\ route.reveReply[1].kind = "ok"
requestCategory == withDefault(route.body[1].category, "birthday")
requestArtStyle == withDefault(route.body[1].artStyle, "editorial-painterly")
resolvedTo(url) ==
    /\ route.response[1].status = 200
    /\ route.response[1].imageUrl = <<url>>

\* A category, an art style that is not one of the ids of its table.
unknownCategory == ~(requestCategory.type = "string" /\ requestCategory.value \in CategoryIds)
unknownArtStyle == ~(requestArtStyle.type = "string" /\ requestArtStyle.value \in ArtStyleIds)

\* C30 as stated: a response with an image field yields 'data:image/png;
\* base64,' + image even when url is present, a response with only url
\* yields that url, a response with neither yields the error 'No image in
\* Reve response'; an unknown category falls back to the birthday theme
\* and an unknown art style to editorial-painterly instead of failing: the
\* valid request goes on to the text model with the fall-back.
C30_FixedPrecedence ==
    /\ imageAnswered =>
         LET data == route.reveReply[1]
         IN /\ data.image # Undefined =>
                 resolvedTo(<<"data:image/png;base64,", data.image>>)
            /\ (data.image = Undefined /\ data.url # Undefined) => resolvedTo(<<data.url>>)
            /\ (data.image = Undefined /\ data.url = Undefined) =>
                 (answered(500) /\ route.response[1].error = <<"No image in Reve response">>)
    /\ (received /\ ~descriptionInvalid /\ ~keyMissing) =>
         /\ route.claudeCalls # << >>
         /\ unknownCategory => route.claudeCalls[1].theme = "birthday"
         /\ unknownArtStyle => route.claudeCalls[1].style = "editorial-painterly"

\* C30, amended: the precedence is by truthiness.  A non-empty image
\* yields the data URL even when url is present; otherwise a non-empty url
\* yields that url; otherwise the error.  A category or art style that is
\* a string but no key of its table, own or inherited, falls back to
\* birthday or to editorial-painterly, and the request goes on to the text
\* model; one that is no string (null, a number) makes the request, its
\* description valid and both keys configured, fail: it is answered 500
\* with the message of the TypeError and no service is called.
C30_TruthyPrecedence ==
    /\ imageAnswered =>
         LET data == route.reveReply[1]
         IN /\ Truthy(data.image) => resolvedTo(<<"data:image/png;base64,", data.image>>)
            /\ (~Truthy(data.image) /\ Truthy(data.url)) => resolvedTo(<<data.url>>)
            /\ (~Truthy(data.image) /\ ~Truthy(data.url)) =>
                 (answered(500) /\ route.response[1].error = <<"No image in Reve response">>)
    /\ (received /\ ~descriptionInvalid /\ ~keyMissing) =>
         IF requestCategory.type = "string" /\ requestArtStyle.type = "string"
         THEN /\ route.claudeCalls # << >>
              /\ requestCategory.value \notin CategoryIds \cup InheritedKeys =>
                     route.claudeCalls[1].theme = "birthday"
              /\ requestArtStyle.value \notin ArtStyleIds \cup InheritedKeys =>
                     route.claudeCalls[1].style = "editorial-painterly"
              /\ requestCategory.value \in CategoryIds =>
                     route.claudeCalls[1].theme = requestCategory.value
              /\ requestArtStyle.value \in ArtStyleIds =>
                     route.claudeCalls[1].style = requestArtStyle.value
         ELSE /\ failedWith(500, promptError(route.body[1])[1])
              /\ noServiceCalled

\* C30 witness: a request with an unknown category and an unknown art
\* style went on with the fall-backs, and an image answer with both image
\* and url was resolved to the data URL.
C30_Witness ==
    /\ imageAnswered
    /\ route.body[1].category = [type |-> "string", value |-> "easter"]
    /\ route.body[1].artStyle = [type |-> "string", value |-> "cubist"]
    /\ route.claudeCalls[1].theme = "birthday"
    /\ route.claudeCalls[1].style = "editorial-painterly"
    /\ Truthy(route.reveReply[1].image) /\ Truthy(route.reveReply[1].url)
    /\ resolvedTo(<<"data:image/png;base64,", route.reveReply[1].image>>)

---------------------------------------------------------------------------
(* Properties of the page and of the share menu *)

\* The application state of the page: what its useState hooks hold, apart
\* from webShareAvailable, which is set once on mount.
appState ==
    <<description, category, artStyle, insideMessage, messageFontSize, isLoading,
      generatedImage, error, showShareMenu, shareStatus>>

\* What the page holds apart from the menu flag.
appStateButMenu ==
    <<description, category, artStyle, insideMessage, messageFontSize, isLoading,
      generatedImage, error, shareStatus>>

\* C21 as stated: a PDF download has no effect on application state: every
\* step of handleDownloadPDF, and every step in which a document is saved
\* or a download failure is logged, leaves description, category, artStyle,
\* insideMessage, messageFontSize, isLoading, generatedImage, error and the
\* share state (showShareMenu, shareStatus) as they were.
C21_DownloadLeavesState ==
    [][(handleDownloadPDF \/ savedPdf' # savedPdf \/ pdfLog' # pdfLog)
          => UNCHANGED appState]_vars

\* C21, amended: a PDF download leaves description, category, artStyle,
\* insideMessage, messageFontSize, isLoading, generatedImage, error and
\* shareStatus as they were, whether it saves a document, fails or does
\* nothing; of the share state it changes showShareMenu only, and only
\* from true to false: the click on the download button closes a shown
\* share menu, and the menu is closed after every download that saved a
\* document or logged a failure.
C21_DownloadClosesMenuOnly ==
    [][(handleDownloadPDF \/ savedPdf' # savedPdf \/ pdfLog' # pdfLog)
          => /\ UNCHANGED appStateButMenu
             /\ showShareMenu' => showShareMenu
             /\ (savedPdf' # savedPdf \/ pdfLog' # pdfLog) => ~showShareMenu']_vars

\* C21 witness: a download has failed after a file share had left the menu
\* open with its message shown; the page reports no error, the message is
\* still shown and the menu is closed.
C21_Witness ==
    /\ pdfLog = "error"
    /\ generatedImage # << >>
    /\ error = << >>
    /\ shareLog = "file-shared"
    /\ shareStatus # << >>
    /\ ~showShareMenu

\* C23: at most one generation request is in flight at any time: under
\* every interleaving of submit clicks, regenerate clicks and completions,
\* a request to /api/generate is started only while isLoading is false and
\* no other request is in flight.
C23_OneRequestInFlight ==
    /\ [](pending <= 1)
    /\ [][pending' > pending => (~isLoading /\ pending = 0 /\ pending' = 1)]_vars

\* C23 witness: a request in flight, the page loading and showing neither
\* a card nor an error.
C23_Witness ==
    /\ pending = 1
    /\ isLoading
    /\ generatedImage = << >>
    /\ error = << >>
    /\ ~IsBlank(description)

\* C24: in every reachable state of the page error and generatedImage are
\* never both non-null: starting a generation clears both, a successful
\* completion sets only generatedImage, a failed one sets only error.
C24_ErrorOrImage ==
    /\ ~(error # << >> /\ generatedImage # << >>)
    /\ isLoading => (error = << >> /\ generatedImage = << >>)

\* C24 witness: a regeneration has failed: the card that had been generated
\* (and downloaded) is gone and the error is shown.
C24_Witness ==
    /\ error # << >>
    /\ generatedImage = << >>
    /\ savedPdf # << >>
    /\ ~isLoading

\* C25: every started generation eventually ends with isLoading false,
\* whether the request succeeds, the server answers with an error status,
\* fetch rejects or the body cannot be parsed; isLoading is true only
\* between the start of a request and its completion.
C25_LoadingEnds ==
    /\ [](isLoading <=> pending > 0)
    /\ isLoading ~> ~isLoading

\* C25 witness: a generation has ended on a body that could not be parsed;
\* the page is no longer loading and shows the parser's message.
C25_Witness ==
    /\ ~isLoading
    /\ pending = 0
    /\ error # << >>
    /\ error[1] \in JsonErrorMessages
    /\ generatedImage = << >>

\* C28: after handleNativeShare finishes with an image present the share
\* menu is closed, on every outcome: in every step that ends a pending
\* handleNativeShare (file share succeeded, text share succeeded, share
\* failed, share cancelled) showShareMenu is false afterwards.
C28_MenuClosedAfterShare ==
    [][nativeSharePending' < nativeSharePending => ~showShareMenu']_vars

\* C29: every share status message is transient: whenever shareStatus is
\* non-null (set by the native share, the copy or the Facebook entry) a
\* timer that clears it is pending and shareStatus eventually is null
\* again, under every interleaving of the share actions and their timers;
\* a share the user cancelled (AbortError) sets no message and no timer.
C29_StatusTransient ==
    /\ [](shareStatus # << >> => timers > 0)
    /\ (shareStatus # << >>) ~> (shareStatus = << >>)
    /\ [][(nativeSharePending' < nativeSharePending /\ shareLog' = "share-cancelled")
             => (shareStatus' = shareStatus /\ timers' = timers)]_vars

\* C29 witness: a share has been cancelled while a message of other share
\* actions is shown and two of their timers are pending.
C29_Witness ==
    /\ shareLog = "share-cancelled"
    /\ shareStatus # << >>
    /\ timers >= 2
    /\ nativeSharePending = 0

====
